---- MODULE Spec2Model ----
(***************************************************************************)
(* A model of rustcafe's class-file decoder (src/src/class.rs) and of the  *)
(* driver's use of it (src/src/main.rs).                                   *)
(*                                                                         *)
(* The file is a sequence of bytes (0..255) and a cursor.  Decoding is a   *)
(* sequential program; each action below is one straight-line block or one *)
(* loop iteration of the source, and the mutual recursion between          *)
(* Attributes::new and read_code is kept on an explicit call stack.        *)
(* A Rust panic ends the run: phase = "panic" and panicMsg says which.     *)
(* A String is kept as its UTF-8 bytes, a descriptor as a sequence of      *)
(* one-character strings.  A local of the source is bound with             *)
(* \E x \in {e} : ..., which has TLC evaluate e once.                       *)
(***************************************************************************)
EXTENDS Integers, Sequences, FiniteSets, TLC

VARIABLES
    input,            \* the bytes of the opened file (ClassFile.file)
    overflow_checks,  \* the build: TRUE = debug (overflow panics), FALSE = release (wraps)
    pos,              \* the file cursor
    phase,            \* where read_class stands, then "done" or "panic"
    panicMsg,         \* the panic that ended the run, "" if none
    left,             \* iterations left of the top-level loop that is running
    stack,            \* call stack below read_class (top = last element)
    class,            \* the Class being built (its locals, then the struct)
    last,             \* the last query made on the Class and what it returned
    obs               \* observations of the run used to state the claims

vars == <<input, overflow_checks, pos, phase, panicMsg, left, stack, class, last, obs>>

Min(a, b) == IF a < b THEN a ELSE b

(***************************************************************************)
(* Bounds of the generated inputs.                                         *)
(***************************************************************************)
MaxNest == 2        \* deepest nesting of Code attributes inside Code attributes
MaxCodeLen == 2     \* longest instruction array of a generated Code attribute

(***************************************************************************)
(* The strings of the source, as UTF-8 bytes.                              *)
(***************************************************************************)
StrCode == <<67, 111, 100, 101>>
StrConstantValue == <<67, 111, 110, 115, 116, 97, 110, 116, 86, 97, 108, 117, 101>>
StrLineNumberTable == <<76, 105, 110, 101, 78, 117, 109, 98, 101, 114, 84, 97, 98, 108, 101>>
StrMain == <<109, 97, 105, 110>>

\* 0xCAFEBABE as its two 16-bit halves (the value does not fit TLC's integers)
MagicHi == 51966
MagicLo == 47806

(***************************************************************************)
(* ClassFile::read_u8 / read_u16 / read_u32: File::read into a zeroed      *)
(* buffer.  read returns how many bytes it could copy (fewer than asked at *)
(* the end of the file), the count is unwrapped and dropped, and the rest  *)
(* of the buffer keeps its zeros.                                          *)
(***************************************************************************)
\* As file_read, but with the cursor advanced by the bytes asked for, not by the
\* bytes read.
file_read_past_end(p, n) ==
    LET k == Min(n, Len(input) - p)
    IN  [b     |-> [i \in 1..n |-> IF i <= k THEN input[p + i] ELSE 0],
         pos   |-> p + n,
         short |-> k < n]

file_read(p, n) ==
    LET k == Min(n, Len(input) - p)
    IN  [b     |-> [i \in 1..n |-> IF i <= k THEN input[p + i] ELSE 0],
         pos   |-> p + k,
         short |-> k < n]

read_u8(p) ==
    LET r == file_read(p, 1)
    IN  [v |-> r.b[1], pos |-> r.pos, short |-> r.short]

read_u16(p) ==
    LET r == file_read(p, 2)
    IN  [v |-> r.b[1] * 256 + r.b[2], pos |-> r.pos, short |-> r.short]

\* the u32 is kept as its two 16-bit halves
read_u32(p) ==
    LET r == file_read(p, 4)
    IN  [hi |-> r.b[1] * 256 + r.b[2], lo |-> r.b[3] * 256 + r.b[4],
         pos |-> r.pos, short |-> r.short]

\* the value of a u32 used as a count (the inputs below keep hi < 32768, so the
\* value fits TLC's integers)
u32_value(r) == r.hi * 65536 + r.lo

\* n calls of read_u16 in a row: they fill their buffers from the file in order, as
\* one read of 2n bytes does, and stop advancing together at the end of the file
read_u16s(p, n) ==
    LET r == file_read(p, 2 * n)
    IN  [vs    |-> [i \in 1..n |-> r.b[2 * i - 1] * 256 + r.b[2 * i]],
         pos   |-> r.pos,
         short |-> r.short]

(***************************************************************************)
(* String::from_utf8: Ok iff the bytes are well-formed UTF-8.              *)
(***************************************************************************)
IsCont(b, i) == i <= Len(b) /\ b[i] >= 128 /\ b[i] <= 191
InRange(b, i, lo, hi) == i <= Len(b) /\ b[i] >= lo /\ b[i] <= hi

RECURSIVE from_utf8_ok(_, _)
from_utf8_ok(b, i) ==
    IF i > Len(b) THEN TRUE
    ELSE LET c == b[i] IN
         IF c < 128 THEN from_utf8_ok(b, i + 1)
         ELSE IF c >= 194 /\ c <= 223
              THEN IsCont(b, i + 1) /\ from_utf8_ok(b, i + 2)
         ELSE IF c = 224
              THEN InRange(b, i + 1, 160, 191) /\ IsCont(b, i + 2) /\ from_utf8_ok(b, i + 3)
         ELSE IF (c >= 225 /\ c <= 236) \/ c = 238 \/ c = 239
              THEN IsCont(b, i + 1) /\ IsCont(b, i + 2) /\ from_utf8_ok(b, i + 3)
         ELSE IF c = 237
              THEN InRange(b, i + 1, 128, 159) /\ IsCont(b, i + 2) /\ from_utf8_ok(b, i + 3)
         ELSE IF c = 240
              THEN InRange(b, i + 1, 144, 191) /\ IsCont(b, i + 2) /\ IsCont(b, i + 3)
                   /\ from_utf8_ok(b, i + 4)
         ELSE IF c >= 241 /\ c <= 243
              THEN IsCont(b, i + 1) /\ IsCont(b, i + 2) /\ IsCont(b, i + 3)
                   /\ from_utf8_ok(b, i + 4)
         ELSE IF c = 244
              THEN InRange(b, i + 1, 128, 143) /\ IsCont(b, i + 2) /\ IsCont(b, i + 3)
                   /\ from_utf8_ok(b, i + 4)
         ELSE FALSE

(***************************************************************************)
(* A panic: the process aborts where it stands.                            *)
(***************************************************************************)
Panic(msg, p, o) ==
    /\ phase' = "panic"
    /\ panicMsg' = msg
    /\ pos' = p
    /\ obs' = o
    /\ UNCHANGED <<input, overflow_checks, left, stack, class, last>>

\* x - 1 on an unsigned zero used as an index: the debug build panics on the
\* subtraction, the release build wraps and panics on the index.
IndexZeroMsg ==
    IF overflow_checks THEN "attempt to subtract with overflow"
    ELSE "index out of bounds"

Short(o, s) == [o EXCEPT !.short = o.short \/ s]

(***************************************************************************)
(* ClassFile::read_class, lines 25-28: the magic.                          *)
(***************************************************************************)
\* As ReadMagic, but with the test of the magic after Version::new has read on.
ReadMagicAfterVersion ==
    /\ phase = "magic"
    /\ \E m \in {read_u32(pos)} : \E mi \in {read_u16(m.pos)} :
       \E ma \in {read_u16(mi.pos)} :
           IF m.hi # MagicHi \/ m.lo # MagicLo
           THEN Panic("magic bytes not found", ma.pos,
                      Short(obs, m.short \/ mi.short \/ ma.short))
           ELSE /\ phase' = "version"
                /\ pos' = m.pos
                /\ obs' = Short(obs, m.short)
                /\ UNCHANGED <<input, overflow_checks, panicMsg, left, stack, class, last>>

ReadMagic ==
    /\ phase = "magic"
    /\ \E m \in {read_u32(pos)} : \E o \in {Short(obs, m.short)} :
           IF m.hi # MagicHi \/ m.lo # MagicLo
           THEN Panic("magic bytes not found", m.pos, o)
           ELSE /\ phase' = "version"
                /\ pos' = m.pos
                /\ obs' = o
                /\ UNCHANGED <<input, overflow_checks, panicMsg, left, stack, class, last>>

(***************************************************************************)
(* Version::new.                                                           *)
(***************************************************************************)
ReadVersion ==
    /\ phase = "version"
    /\ \E mi \in {read_u16(pos)} : \E ma \in {read_u16(mi.pos)} :
           /\ class' = [class EXCEPT !.version = [minor |-> mi.v, major |-> ma.v]]
           /\ pos' = ma.pos
           /\ obs' = Short(obs, mi.short \/ ma.short)
           /\ phase' = "constant_pool"
           /\ UNCHANGED <<input, overflow_checks, panicMsg, left, stack, last>>

(***************************************************************************)
(* ConstantPool::new, lines 132-134: the count and the loop bound          *)
(* constant_pool_count-1 on a u16.                                         *)
(***************************************************************************)
ConstantPoolNew ==
    /\ phase = "constant_pool"
    /\ \E c \in {read_u16(pos)} :
       \E o \in {[Short(obs, c.short) EXCEPT !.pool_count = c.v]} :
           IF c.v = 0 /\ overflow_checks
           THEN Panic("attempt to subtract with overflow", c.pos, o)
           ELSE /\ left' = IF c.v = 0 THEN 65535 ELSE c.v - 1
                /\ phase' = "constant_pool_items"
                /\ pos' = c.pos
                /\ obs' = o
                /\ UNCHANGED <<input, overflow_checks, panicMsg, stack, class, last>>

(***************************************************************************)
(* ConstantPool::new, lines 135-179: one iteration of the loop.            *)
(***************************************************************************)
PoolPush(item, p, o) ==
    /\ class' = [class EXCEPT !.constant_pool = Append(@, item)]
    /\ left' = left - 1
    /\ pos' = p
    /\ obs' = o
    /\ UNCHANGED <<input, overflow_checks, phase, panicMsg, stack, last>>

ConstantPoolItem ==
    /\ phase = "constant_pool_items"
    /\ left > 0
    /\ \E t \in {read_u8(pos)} : \E a \in {read_u16(t.pos)} :
       \E b \in {read_u16(a.pos)} : \E k \in {read_u8(t.pos)} :
       \E ki \in {read_u16(k.pos)} :
       \E o1 \in {[Short(obs, t.short) EXCEPT !.tag = t.v]} :
           CASE t.v = 7 ->
                  PoolPush([tag |-> "Class", name_index |-> a.v], a.pos, Short(o1, a.short))
             [] t.v = 10 ->
                  PoolPush([tag |-> "Methodref", class_index |-> a.v,
                            name_and_type_index |-> b.v], b.pos,
                           Short(o1, a.short \/ b.short))
             [] t.v = 11 ->
                  PoolPush([tag |-> "InterfaceMethodref", class_index |-> a.v,
                            name_and_type_index |-> b.v], b.pos,
                           Short(o1, a.short \/ b.short))
             [] t.v = 15 ->
                  PoolPush([tag |-> "MethodHandle", reference_kind |-> k.v,
                            reference_index |-> ki.v], ki.pos,
                           Short(o1, k.short \/ ki.short))
             [] t.v = 12 ->
                  PoolPush([tag |-> "NameAndType", name_index |-> a.v,
                            descriptor_index |-> b.v], b.pos,
                           Short(o1, a.short \/ b.short))
             [] t.v = 1 ->
                  \E s \in {file_read(a.pos, a.v)} :
                  \E o2 \in {Short(o1, a.short \/ s.short)} :
                      IF from_utf8_ok(s.b, 1)
                      THEN PoolPush([tag |-> "UTF8", string |-> s.b], s.pos, o2)
                      ELSE Panic("unwrap on Err: FromUtf8Error",
                                 s.pos, o2)
             [] OTHER ->
                  Panic("constant object with tag not implemented", t.pos, o1)

(***************************************************************************)
(* ClassFile::read_class, lines 31-39: access flags, this_class,           *)
(* super_class and the interfaces, once the constant pool loop has ended.  *)
(***************************************************************************)
ReadClassHeader ==
    /\ phase = "constant_pool_items"
    /\ left = 0
    /\ \E af \in {read_u16(pos)} : \E tc \in {read_u16(af.pos)} :
       \E sc \in {read_u16(tc.pos)} : \E ic \in {read_u16(sc.pos)} :
       \E is \in {read_u16s(ic.pos, ic.v)} :
           /\ class' = [class EXCEPT !.access_flags = af.v, !.this_class = tc.v,
                                     !.super_class = sc.v, !.interfaces = is.vs]
           /\ pos' = is.pos
           /\ obs' = Short(obs, af.short \/ tc.short \/ sc.short \/ ic.short \/ is.short)
           /\ phase' = "fields"
           /\ UNCHANGED <<input, overflow_checks, panicMsg, left, stack, last>>

(***************************************************************************)
(* FieldOrMethods::new, line 228: the length of the field or method table. *)
(***************************************************************************)
FieldOrMethodsNew ==
    /\ phase \in {"fields", "methods"}
    /\ \E n \in {read_u16(pos)} :
           /\ left' = n.v
           /\ pos' = n.pos
           /\ obs' = Short(obs, n.short)
           /\ phase' = IF phase = "fields" THEN "field_items" ELSE "method_items"
           /\ UNCHANGED <<input, overflow_checks, panicMsg, stack, class, last>>

(***************************************************************************)
(* FieldOrMethodItem::new, lines 259-262, up to the loop of the            *)
(* Attributes::new it calls (line 282 reads the count).                    *)
(***************************************************************************)
FieldOrMethodItemNew ==
    /\ phase \in {"field_items", "method_items"}
    /\ stack = <<>>
    /\ left > 0
    /\ \E af \in {read_u16(pos)} : \E ni \in {read_u16(af.pos)} :
       \E di \in {read_u16(ni.pos)} : \E c \in {read_u16(di.pos)} :
           /\ stack' = << [fn |-> "FieldOrMethodItem", access_flags |-> af.v,
                           name_index |-> ni.v, descriptor_index |-> di.v],
                          [fn |-> "Attributes", left |-> c.v, items |-> <<>>] >>
           /\ pos' = c.pos
           /\ obs' = Short(obs, af.short \/ ni.short \/ di.short \/ c.short)
           /\ UNCHANGED <<input, overflow_checks, phase, panicMsg, left, class, last>>

Top == stack[Len(stack)]

\* items.push(attribute) in the running Attributes::new, and its loop counter
PushAttribute(st, item) ==
    [st EXCEPT ![Len(st)] = [@ EXCEPT !.items = Append(@, item), !.left = @ - 1]]

Pairs(vs) == [i \in 1..(Len(vs) \div 2) |-> <<vs[2 * i - 1], vs[2 * i]>>]
Quads(vs) == [i \in 1..(Len(vs) \div 4) |->
                 [start_pc |-> vs[4 * i - 3], end_pc |-> vs[4 * i - 2],
                  handler_pc |-> vs[4 * i - 1], catch_type |-> vs[4 * i]]]

(***************************************************************************)
(* Attributes::new, lines 286-301: one iteration of the loop.  For "Code"  *)
(* the step runs read_code (lines 451-464) up to the loop of the nested    *)
(* Attributes::new.  _attribute_length is read and never used; obs.attr    *)
(* keeps it beside the bytes the decoder went on to consume.               *)
(***************************************************************************)
AttributeItem ==
    /\ phase \in {"field_items", "method_items"}
    /\ stack # <<>>
    /\ Top.fn = "Attributes"
    /\ Top.left > 0
    /\ \E ni \in {read_u16(pos)} : \E al \in {read_u32(ni.pos)} :
       \E o1 \in {[Short(obs, ni.short \/ al.short) EXCEPT !.name_index = ni.v]} :
       \E cp \in {class.constant_pool} :
           IF ni.v = 0 THEN Panic(IndexZeroMsg, al.pos, o1)
           ELSE IF ni.v > Len(cp) THEN Panic("index out of bounds", al.pos, o1)
           ELSE IF cp[ni.v].tag # "UTF8" THEN Panic("should not happen", al.pos, o1)
           ELSE
           LET string == cp[ni.v].string
               hdr == [name |-> string, declared |-> u32_value(al), start |-> al.pos]
           IN  CASE string = StrCode ->
                      \E ms \in {read_u16(al.pos)} : \E ml \in {read_u16(ms.pos)} :
                      \E cl \in {read_u32(ml.pos)} :
                      \E cd \in {file_read(cl.pos, u32_value(cl))} :
                      \E el \in {read_u16(cd.pos)} :
                      \E et \in {read_u16s(el.pos, 4 * el.v)} :
                      \E c \in {read_u16(et.pos)} :
                          /\ stack' = stack \o
                                << [fn |-> "read_code", max_stack |-> ms.v,
                                    max_locals |-> ml.v, code |-> cd.b,
                                    exception_table |-> Quads(et.vs), hdr |-> hdr],
                                   [fn |-> "Attributes", left |-> c.v, items |-> <<>>] >>
                          /\ pos' = c.pos
                          /\ obs' = [Short(o1, ms.short \/ ml.short \/ cl.short \/ cd.short
                                                \/ el.short \/ et.short \/ c.short)
                                       EXCEPT !.attr = [name |-> string,
                                                        declared |-> hdr.declared,
                                                        consumed |-> c.pos - al.pos,
                                                        state |-> "decoding"]]
                          /\ UNCHANGED <<input, overflow_checks, phase, panicMsg, left,
                                         class, last>>
                 [] string = StrConstantValue ->
                      \E v \in {read_u16(al.pos)} :
                          /\ stack' = PushAttribute(stack,
                                 [kind |-> "ConstantValue", constantvalue_index |-> v.v])
                          /\ pos' = v.pos
                          /\ obs' = [Short(o1, v.short)
                                       EXCEPT !.attr = [name |-> string,
                                                        declared |-> hdr.declared,
                                                        consumed |-> v.pos - al.pos,
                                                        state |-> "decoded"]]
                          /\ UNCHANGED <<input, overflow_checks, phase, panicMsg, left,
                                         class, last>>
                 [] string = StrLineNumberTable ->
                      \E n \in {read_u16(al.pos)} :
                      \E ps \in {read_u16s(n.pos, 2 * n.v)} :
                          /\ stack' = PushAttribute(stack,
                                 [kind |-> "LineNumberTable",
                                  line_number_table |-> Pairs(ps.vs)])
                          /\ pos' = ps.pos
                          /\ obs' = [Short(o1, n.short \/ ps.short)
                                       EXCEPT !.attr = [name |-> string,
                                                        declared |-> hdr.declared,
                                                        consumed |-> ps.pos - al.pos,
                                                        state |-> "decoded"]]
                          /\ UNCHANGED <<input, overflow_checks, phase, panicMsg, left,
                                         class, last>>
                 [] OTHER ->
                      Panic("attribute not implemented", al.pos,
                            [o1 EXCEPT !.attr = [name |-> string,
                                                 declared |-> hdr.declared,
                                                 consumed |-> 0,
                                                 state |-> "panic"]])

(***************************************************************************)
(* Attributes::new returns (lines 303-305) to its caller: read_code, which *)
(* returns the Code item to the Attributes::new that called it (lines      *)
(* 465-471, 301), or FieldOrMethodItem::new, which returns the item to the *)
(* loop of FieldOrMethods::new (lines 264-269, 230).                       *)
(***************************************************************************)
AttributesReturn ==
    /\ phase \in {"field_items", "method_items"}
    /\ stack # <<>>
    /\ Top.fn = "Attributes"
    /\ Top.left = 0
    /\ LET caller == stack[Len(stack) - 1]
       IN  IF caller.fn = "read_code"
           THEN /\ stack' = PushAttribute(SubSeq(stack, 1, Len(stack) - 2),
                                [kind |-> "Code", max_stack |-> caller.max_stack,
                                 max_locals |-> caller.max_locals, code |-> caller.code,
                                 exception_table |-> caller.exception_table,
                                 attributes |-> Top.items])
                /\ obs' = [obs EXCEPT !.attr = [name |-> caller.hdr.name,
                                                declared |-> caller.hdr.declared,
                                                consumed |-> pos - caller.hdr.start,
                                                state |-> "decoded"]]
                /\ UNCHANGED <<input, overflow_checks, pos, phase, panicMsg, left,
                               class, last>>
           ELSE LET item == [access_flags |-> caller.access_flags,
                             name_index |-> caller.name_index,
                             descriptor_index |-> caller.descriptor_index,
                             attributes |-> Top.items]
                IN  /\ stack' = <<>>
                    /\ left' = left - 1
                    /\ class' = IF phase = "field_items"
                                THEN [class EXCEPT !.fields = Append(@, item)]
                                ELSE [class EXCEPT !.methods = Append(@, item)]
                    /\ UNCHANGED <<input, overflow_checks, pos, phase, panicMsg,
                                   last, obs>>

(***************************************************************************)
(* FieldOrMethods::new returns (lines 232-234); after the methods          *)
(* read_class returns the Class (lines 44-53).                             *)
(***************************************************************************)
FieldOrMethodsReturn ==
    /\ phase \in {"field_items", "method_items"}
    /\ stack = <<>>
    /\ left = 0
    /\ phase' = IF phase = "field_items" THEN "methods" ELSE "done"
    /\ UNCHANGED <<input, overflow_checks, pos, panicMsg, left, stack, class, last, obs>>

(***************************************************************************)
(* ConstantPool::class_name: both hops index self.items with index - 1     *)
(* and panic on an entry of the wrong variant.                             *)
(***************************************************************************)
class_name(index) ==
    LET cp == class.constant_pool
    IN  IF index = 0 THEN [ok |-> FALSE, msg |-> IndexZeroMsg, v |-> <<>>]
        ELSE IF index > Len(cp)
             THEN [ok |-> FALSE, msg |-> "index out of bounds", v |-> <<>>]
        ELSE IF cp[index].tag # "Class"
             THEN [ok |-> FALSE, msg |-> "reference error", v |-> <<>>]
        ELSE LET name_index == cp[index].name_index
             IN  IF name_index = 0 THEN [ok |-> FALSE, msg |-> IndexZeroMsg, v |-> <<>>]
                 ELSE IF name_index > Len(cp)
                      THEN [ok |-> FALSE, msg |-> "index out of bounds", v |-> <<>>]
                 ELSE IF cp[name_index].tag # "UTF8"
                      THEN [ok |-> FALSE, msg |-> "reference error", v |-> <<>>]
                 ELSE [ok |-> TRUE, msg |-> "", v |-> cp[name_index].string]

\* ConstantPool::utf8_item_index_by_name: 1-based index of the first equal UTF8 item, 0 = None
utf8_item_index_by_name(name) ==
    LET cp   == class.constant_pool
        hits == {i \in 1..Len(cp) : cp[i].tag = "UTF8" /\ cp[i].string = name}
    IN  IF hits = {} THEN 0 ELSE CHOOSE i \in hits : \A j \in hits : i <= j

\* FieldOrMethods::by_name_index on self.methods: position of the first match, 0 = None
by_name_index(index) ==
    LET ms   == class.methods
        hits == {i \in 1..Len(ms) : ms[i].name_index = index}
    IN  IF hits = {} THEN 0 ELSE CHOOSE i \in hits : \A j \in hits : i <= j

\* Class::field_or_method_by_name
field_or_method_by_name(string) ==
    LET index == utf8_item_index_by_name(string)
    IN  IF index = 0 THEN 0 ELSE by_name_index(index)

\* Class::has_super_class
has_super_class == class.super_class # 0

None == [kind |-> "None", v |-> <<>>]
Some(x) == [kind |-> "Some", v |-> x]
Aborted == [kind |-> "panic", v |-> <<>>]

\* a query returns: last holds its name and result
Return(op, result) ==
    /\ last' = [op |-> op, arg |-> <<>>, result |-> result, printed |-> <<>>]
    /\ UNCHANGED <<input, overflow_checks, pos, phase, panicMsg, left, stack, class, obs>>

\* a query panics
QueryPanic(op, msg) ==
    /\ last' = [op |-> op, arg |-> <<>>, result |-> Aborted, printed |-> <<>>]
    /\ phase' = "panic"
    /\ panicMsg' = msg
    /\ UNCHANGED <<input, overflow_checks, pos, left, stack, class, obs>>

(***************************************************************************)
(* Class::this_class_name                                                  *)
(***************************************************************************)
ThisClassName ==
    /\ phase = "done"
    /\ LET r == class_name(class.this_class)
       IN  IF r.ok THEN Return("this_class_name", Some(r.v))
           ELSE QueryPanic("this_class_name", r.msg)

(***************************************************************************)
(* Class::super_class_name, lines 513-519                                  *)
(***************************************************************************)
SuperClassName ==
    /\ phase = "done"
    /\ IF has_super_class
       THEN Return("super_class_name", None)
       ELSE LET r == class_name(class.super_class)
            IN  IF r.ok THEN Return("super_class_name", Some(r.v))
                ELSE QueryPanic("super_class_name", r.msg)

(***************************************************************************)
(* Class::main_func_code, lines 532-545: the loop returns on its first     *)
(* item, whatever it is.                                                   *)
(***************************************************************************)
MainFuncCode ==
    /\ phase = "done"
    /\ LET m == field_or_method_by_name(StrMain)
       IN  IF m = 0
           THEN QueryPanic("main_func_code", "called unwrap on a None value")
           ELSE LET items == class.methods[m].attributes
                IN  IF items = <<>> THEN Return("main_func_code", None)
                    ELSE IF items[1].kind = "Code"
                         THEN Return("main_func_code", Some(items[1].code))
                         ELSE Return("main_func_code", None)

(***************************************************************************)
(* read_type.  The two regular expressions only feed the println!; the     *)
(* value returned is the literal of lines 600-603.                         *)
(***************************************************************************)
\* "^[(](.*)[)](.+)": positions of a ")" that closes group 1 and leaves group 2 a character
re_method_ends(string) ==
    IF string = <<>> \/ string[1] # "(" THEN {}
    ELSE {j \in 2..(Len(string) - 1) : string[j] = ")"}

\* the greedy match: the last such ")"
re_method_captures(string) ==
    LET j == CHOOSE x \in re_method_ends(string) : \A y \in re_method_ends(string) : y <= x
    IN  <<SubSeq(string, 2, j - 1), SubSeq(string, j + 1, Len(string))>>

\* Regex "(I){1}(Z){1}" splitn(text, limit): cut at each "IZ", at most limit pieces
RECURSIVE re_args_splitn(_, _)
re_args_splitn(text, limit) ==
    LET hits == {i \in 1..(Len(text) - 1) : text[i] = "I" /\ text[i + 1] = "Z"}
    IN  IF limit <= 1 \/ hits = {} THEN <<text>>
        ELSE LET i == CHOOSE x \in hits : \A y \in hits : x <= y
             IN  <<SubSeq(text, 1, i - 1)>>
                 \o re_args_splitn(SubSeq(text, i + 2, Len(text)), limit - 1)

TInt == [t |-> "Int"]

read_type(string) ==
    [t |-> "Method", return_type |-> TInt, arguments |-> <<TInt, TInt>>]

read_type_prints(string) ==
    IF re_method_ends(string) = {} THEN <<>>
    ELSE re_args_splitn(re_method_captures(string)[1], 30)

(***************************************************************************)
(* The descriptors read_type is called with: the one of main.rs:16, the    *)
(* other well-formed ones of the descriptor grammar, and malformed ones.   *)
(***************************************************************************)
DescIZI == <<"(", "I", "Z", "I", ")", "I">>
DescArray == <<"[", "[", "I">>
DescString == <<"L", "j", "a", "v", "a", "/", "l", "a", "n", "g", "/",
                "S", "t", "r", "i", "n", "g", ";">>
DescVoid == <<"(", ")", "V">>
DescUnterminated == <<"(", "I">>
DescEmpty == <<>>
DescUnknown == <<"X">>
DescTrailing == <<"(", ")", "V", "V">>
DescInt == <<"I">>

Descriptors ==
    {DescIZI, DescArray, DescString, DescVoid, DescUnterminated, DescEmpty,
     DescUnknown, DescTrailing, DescInt}

\* main.rs:16 and any other caller: read_type on a descriptor, after the class is read
ReadType ==
    /\ phase = "done"
    /\ \E string \in Descriptors :
          last' = [op |-> "read_type", arg |-> string,
                   result |-> [kind |-> "value", v |-> read_type(string)],
                   printed |-> read_type_prints(string)]
    /\ UNCHANGED <<input, overflow_checks, pos, phase, panicMsg, left, stack, class, obs>>

(***************************************************************************)
(* The files the decoder is run on: class files written byte by byte in    *)
(* the layout read_class reads, every attribute declaring the length of    *)
(* its payload unless said otherwise, and every prefix of the well-formed  *)
(* ones (a truncated file).                                                *)
(***************************************************************************)
U16(n) == <<n \div 256, n % 256>>
U32(n) == <<0, 0>> \o U16(n)

RECURSIVE Concat(_)
Concat(ss) == IF ss = <<>> THEN <<>> ELSE Head(ss) \o Concat(Tail(ss))

EncUtf8(string) == <<1>> \o U16(Len(string)) \o string
EncClass(name_index) == <<7>> \o U16(name_index)

\* pool indices of the entries of the standard pool below, and one beyond it
Ix == [A |-> 1, ClassA |-> 2, Code |-> 3, Main |-> 4, ConstantValue |-> 5,
       LineNumberTable |-> 6, Unknown |-> 7, ClassOfClass |-> 8, Beyond |-> 20]

StdEntries ==
    <<EncUtf8(<<65>>), EncClass(Ix.A), EncUtf8(StrCode), EncUtf8(StrMain),
      EncUtf8(StrConstantValue), EncUtf8(StrLineNumberTable), EncUtf8(<<88>>),
      EncClass(Ix.ClassA)>>

EncPool(entries) == U16(Len(entries) + 1) \o Concat(entries)

PoolStd == EncPool(StdEntries)
\* the other tags the decoder knows: Methodref, InterfaceMethodref, NameAndType, MethodHandle
PoolAllTags ==
    EncPool(StdEntries \o << <<10, 0, 2, 0, 11>>, <<11, 0, 2, 0, 11>>,
                             <<12, 0, 4, 0, 1>>, <<15, 6>> \o U16(9) >>)
\* a String constant (tag 8), which the decoder does not know
PoolStringTag == EncPool(<<EncUtf8(<<65>>), EncClass(Ix.A), <<8, 0, 1>> >>)
\* constant_pool_count = 0
PoolCountZero == U16(0)
\* bytes that are not UTF-8
PoolBadUtf8 == EncPool(<<EncUtf8(<<255>>), EncClass(Ix.A)>>)
\* a two-byte UTF-8 character
PoolTwoByteChar == EncPool(<<EncUtf8(<<195, 169>>), EncClass(Ix.A)>>)

\* an attribute: name index, declared length (payload length + lie), payload
EncAttr(name_index, payload, lie) ==
    U16(name_index) \o U32(Len(payload) + lie) \o payload

EncTable(attrs) == U16(Len(attrs)) \o Concat(attrs)

CodeBytes(n) == [i \in 1..n |-> 171 + i]

EncCode(code, exceptions, table, lie) ==
    EncAttr(Ix.Code,
            U16(2) \o U16(1) \o U32(Len(code)) \o code
              \o U16(Len(exceptions)) \o Concat(exceptions) \o table,
            lie)

RECURSIVE NestedCode(_, _)
NestedCode(depth, n) ==
    IF depth = 0 THEN EncCode(CodeBytes(n), <<>>, EncTable(<<>>), 0)
    ELSE EncCode(CodeBytes(n), <<>>, EncTable(<<NestedCode(depth - 1, n)>>), 0)

AttrConstantValue == EncAttr(Ix.ConstantValue, U16(1), 0)
AttrLineNumbers == EncAttr(Ix.LineNumberTable, U16(1) \o U16(0) \o U16(7), 0)
AttrUnknown == EncAttr(Ix.Unknown, <<9, 8>>, 0)
AttrCode == NestedCode(0, 1)

Tables ==
    {EncTable(<<>>)}
    \cup {EncTable(<<NestedCode(d, n)>>) : d \in 0..MaxNest, n \in 0..MaxCodeLen}
    \cup {EncTable(<<AttrConstantValue, AttrCode>>),
          EncTable(<<AttrLineNumbers, AttrCode>>),
          EncTable(<<AttrCode, AttrConstantValue>>),
          EncTable(<<EncCode(CodeBytes(1), <<U16(0) \o U16(1) \o U16(1) \o U16(0)>>,
                             EncTable(<<AttrLineNumbers>>), 0)>>)}

\* tables the decoder should refuse or skip over
OddTables ==
    {EncTable(<<AttrUnknown, AttrCode>>),
     EncTable(<<AttrCode, AttrUnknown>>),
     EncTable(<<EncAttr(Ix.ConstantValue, U16(1), 1), AttrCode>>),
     EncTable(<<EncCode(CodeBytes(1), <<>>, EncTable(<<>>), 2)>>),
     EncTable(<<EncAttr(0, <<>>, 0)>>),
     EncTable(<<EncAttr(Ix.ClassA, <<>>, 0)>>),
     EncTable(<<EncAttr(Ix.Beyond, <<>>, 0)>>)}

EncItem(name_index, table) == U16(9) \o U16(name_index) \o U16(Ix.A) \o table

MethodLists ==
    {<<>>}
    \cup {<<EncItem(Ix.Main, t)>> : t \in Tables \cup OddTables}
    \cup {<<EncItem(Ix.A, EncTable(<<AttrCode>>))>>,
          <<EncItem(Ix.A, EncTable(<<>>)), EncItem(Ix.Main, EncTable(<<AttrCode>>))>>}

FieldLists == {<<>>, <<EncItem(Ix.A, EncTable(<<AttrConstantValue>>))>>}

Magic == <<202, 254, 186, 190>>

EncClassFile(magic, pool, this_class, super_class, interfaces, fields, methods) ==
    magic \o U16(0) \o U16(52) \o pool
      \o U16(33) \o U16(this_class) \o U16(super_class)
      \o U16(Len(interfaces)) \o Concat(interfaces)
      \o U16(Len(fields)) \o Concat(fields)
      \o U16(Len(methods)) \o Concat(methods)

OneMain == <<EncItem(Ix.Main, EncTable(<<AttrCode>>))>>

WellFormed ==
    {EncClassFile(Magic, PoolStd, Ix.ClassA, s, <<>>, <<>>, m) :
        s \in {0, Ix.ClassA}, m \in MethodLists}

Variants ==
    {EncClassFile(Magic, PoolStd, Ix.ClassA, s, <<U16(Ix.ClassA)>>, f, OneMain) :
        s \in {0, Ix.ClassA}, f \in FieldLists}
    \cup {EncClassFile(Magic, PoolStd, t, s, <<>>, <<>>, OneMain) :
            t \in {0, Ix.A, Ix.ClassA, Ix.ClassOfClass, Ix.Beyond},
            s \in {0, Ix.A, Ix.ClassA, Ix.ClassOfClass, Ix.Beyond}}
    \cup {EncClassFile(Magic, p, Ix.ClassA, 0, <<>>, <<>>, <<>>) :
            p \in {PoolAllTags, PoolStringTag, PoolCountZero, PoolBadUtf8,
                   PoolTwoByteChar}}
    \cup {EncClassFile(m, PoolStd, Ix.ClassA, 0, <<>>, <<>>, OneMain) :
            m \in {<<202, 254, 186, 191>>, <<0, 0, 0, 0>>, <<202, 254, 0, 0>>,
                   <<190, 186, 254, 202>>}}

Prefixes(bytes) == {SubSeq(bytes, 1, n) : n \in 0..Len(bytes)}

Inputs == WellFormed \cup Variants \cup UNION {Prefixes(b) : b \in WellFormed}

NoAttr == [name |-> <<>>, declared |-> 0, consumed |-> 0, state |-> "none"]

\* the observations: short = some read asked for more bytes than the file had left;
\* pool_count = constant_pool_count as read; tag = the last constant tag read;
\* name_index = the last attribute_name_index read; attr = the last attribute met,
\* its declared length and the bytes its decoder consumed
NoObs ==
    [short |-> FALSE, pool_count |-> -1, tag |-> -1, name_index |-> -1, attr |-> NoAttr]

NoClass ==
    [version |-> [minor |-> 0, major |-> 0], constant_pool |-> <<>>,
     access_flags |-> 0, this_class |-> 0, super_class |-> 0,
     interfaces |-> <<>>, fields |-> <<>>, methods |-> <<>>]

Init ==
    /\ input \in Inputs
    /\ overflow_checks \in BOOLEAN
    /\ pos = 0
    /\ phase = "magic"
    /\ panicMsg = ""
    /\ left = 0
    /\ stack = <<>>
    /\ class = NoClass
    /\ last = [op |-> "none", arg |-> <<>>, result |-> None, printed |-> <<>>]
    /\ obs = NoObs

Next ==
    \/ ReadMagic
    \/ ReadVersion
    \/ ConstantPoolNew
    \/ ConstantPoolItem
    \/ ReadClassHeader
    \/ FieldOrMethodsNew
    \/ FieldOrMethodItemNew
    \/ AttributeItem
    \/ AttributesReturn
    \/ FieldOrMethodsReturn
    \/ ThisClassName
    \/ SuperClassName
    \/ MainFuncCode
    \/ ReadType

Spec == Init /\ [][Next]_vars

\* the program is sequential: whenever a step is possible, one is taken
FairSpec == Spec /\ WF_vars(Next)

(***************************************************************************)
(*                              The claims                                 *)
(***************************************************************************)
KnownNames == {StrCode, StrConstantValue, StrLineNumberTable}
KnownTags == {1, 7, 10, 11, 12, 15}
Terminated == phase \in {"done", "panic"}

\* what a 1-based pool index must be to resolve to a class name / to a name
ValidClassRef(i) ==
    LET cp == class.constant_pool
    IN  /\ i >= 1 /\ i <= Len(cp)
        /\ cp[i].tag = "Class"
        /\ cp[i].name_index >= 1 /\ cp[i].name_index <= Len(cp)
        /\ cp[cp[i].name_index].tag = "UTF8"

ValidUtf8Ref(i) ==
    LET cp == class.constant_pool
    IN  i >= 1 /\ i <= Len(cp) /\ cp[i].tag = "UTF8"

\* C1: super_class_name returns None if and only if super_class is 0, and for
\* a non-zero super_class Some of the class name resolved through the pool.
C1_SuperClassNameNoneIffZero ==
    last.op = "super_class_name" =>
        /\ (last.result.kind = "None") <=> (class.super_class = 0)
        /\ (class.super_class # 0 /\ ValidClassRef(class.super_class)) =>
              /\ last.result.kind = "Some"
              /\ last.result.v =
                   class.constant_pool[
                       class.constant_pool[class.super_class].name_index].string

\* C2: an attribute whose name is none of the known names does not abort
\* decoding: it is kept (as an Opaque record), exactly its declared length is
\* consumed, and decoding goes on.
C2_UnknownAttributeKeptOpaque ==
    (obs.attr.state # "none" /\ obs.attr.name \notin KnownNames) =>
        /\ phase # "panic"
        /\ obs.attr.state = "decoded"
        /\ obs.attr.consumed = obs.attr.declared

\* C3: every attribute the table builder accepts consumed exactly its declared
\* attribute_length; a mismatch is never passed over silently.
C3_ConsumedEqualsDeclaredLength ==
    obs.attr.state = "decoded" => obs.attr.consumed = obs.attr.declared

BadMagic == Len(input) >= 4 /\ SubSeq(input, 1, 4) # Magic

\* C4: when the first four bytes are not 0xCAFEBABE, decoding fails on the
\* magic (the panic "magic bytes not found" is the code's MagicMismatch) with
\* the cursor at 4: no version, constant pool or later byte has been read.
C4_BadMagicFailsAfterFourBytes ==
    BadMagic =>
        \/ phase = "magic" /\ pos = 0
        \/ /\ phase = "panic"
           /\ panicMsg = "magic bytes not found"
           /\ pos = 4
           /\ class = NoClass
           /\ obs = NoObs
           /\ left = 0 /\ stack = <<>>

C4_Witness ==
    /\ BadMagic
    /\ Len(input) > 4
    /\ phase = "panic"
    /\ panicMsg = "magic bytes not found"
    /\ pos = 4

\* C5: once a read has asked for more bytes than the file holds, decoding
\* has failed with an end-of-data error: it neither goes on to a panic nor to
\* a decoded class.
C5_TruncatedFileFailsWithIoError ==
    obs.short => phase \notin {"done", "panic"}

\* C6: resolving index 0, an index beyond the pool or an entry of the wrong
\* variant yields InvalidConstantReference as a value: in this_class_name, in
\* super_class_name and in the attribute table's name lookup, none aborts.
C6_BadReferenceIsAnErrorValue ==
    /\ (last.op = "this_class_name" /\ ~ValidClassRef(class.this_class)) =>
          (last.result.kind = "InvalidConstantReference" /\ phase # "panic")
    /\ (last.op = "super_class_name" /\ class.super_class # 0
          /\ ~ValidClassRef(class.super_class)) =>
          (last.result.kind = "InvalidConstantReference" /\ phase # "panic")
    /\ (obs.name_index # -1 /\ ~ValidUtf8Ref(obs.name_index)) => phase # "panic"

\* the trees of the descriptor grammar for the descriptors above
TBoolean == [t |-> "Boolean"]
TVoid == [t |-> "Void"]
TSyntaxError == [t |-> "DescriptorSyntaxError"]

GrammarType(string) ==
    CASE string = DescIZI ->
           [t |-> "Method", return_type |-> TInt, arguments |-> <<TInt, TBoolean, TInt>>]
      [] string = DescArray -> [t |-> "Array", dimensions |-> 2, element |-> TInt]
      [] string = DescString -> [t |-> "ClassInstance", name |-> "java/lang/String"]
      [] string = DescVoid -> [t |-> "Method", return_type |-> TVoid, arguments |-> <<>>]
      [] string = DescInt -> TInt
      [] OTHER -> TSyntaxError

\* C7: read_type returns the signature tree the descriptor grammar determines,
\* and DescriptorSyntaxError for a malformed descriptor.
C7_ReadTypeFollowsGrammar ==
    last.op = "read_type" => last.result.v = GrammarType(last.arg)

\* C8: the constant pool holds exactly constant_pool_count - 1 entries once
\* built, and an unrecognized tag is reported as the value
\* UnsupportedConstantTag, not by aborting.
C8_PoolCountAndUnsupportedTag ==
    /\ phase \in {"fields", "field_items", "methods", "method_items", "done"} =>
          Len(class.constant_pool) = obs.pool_count - 1
    /\ (obs.tag # -1 /\ obs.tag \notin KnownTags) => phase # "panic"

\* C9: main_func_code returns Some of the code of the method's Code attribute
\* wherever it stands in the method's attribute table, None when there is
\* none, and does not abort when no method is named "main".
C9_MainFuncCodeFindsCode ==
    last.op = "main_func_code" =>
        /\ last.result.kind # "panic"
        /\ LET m == field_or_method_by_name(StrMain)
           IN  m # 0 =>
                 LET items == class.methods[m].attributes
                     codes == {i \in 1..Len(items) : items[i].kind = "Code"}
                 IN  IF codes = {} THEN last.result = None
                     ELSE last.result =
                            Some(items[CHOOSE i \in codes : \A j \in codes : i <= j].code)

\* the read_code calls on the stack
CodeFrames == {i \in 1..Len(stack) : stack[i].fn = "read_code"}

NestingConsumesInput ==
    /\ pos <= Len(input)
    /\ \A i \in CodeFrames : stack[i].hdr.start <= pos
    /\ \A i, j \in CodeFrames : i < j => stack[i].hdr.start < stack[j].hdr.start

====
